---- MODULE Spec2Model ----
(***************************************************************************)
(* Model of the LTI aircraft model construction (models/aircraft_model.py) *)
(* and of the reward functions (models/rewards.py).                        *)
(*                                                                         *)
(* Numbers.  The fields of AircraftData are Python numbers and the program *)
(* computes with Python floats.  A float is modelled as an exact rational  *)
(* <<n, d>> in lowest terms with d > 0; rounding is not modelled.  A       *)
(* Python division by zero raises ZeroDivisionError: the raised exception  *)
(* is the value NaR = <<0, 0>>, which every later operation propagates, so *)
(* that the first statement of a function whose value is NaR is the        *)
(* statement that raised.                                                  *)
(*                                                                         *)
(* control.StateSpace (the base class) is a library: of its constructor    *)
(* only the matrices it is handed are kept.                                *)
(***************************************************************************)
EXTENDS Integers, Sequences, FiniteSets, TLC

\* pc           where the program is: idle, or the call that returned or raised
\* data         Aircraft.data (aircraft_model.py:15)
\* sym, asym    Aircraft.sym, Aircraft.asym (lines 16-22)
\* exc          the exception the call raised: its type and the raising line
\* ss           a StateSpace constructed directly (lines 37-49)
\* env          self of the reward functions (rewards.py:18-26)
\* reward_type  the tag given to get_reward, reward_fn what it returned
\* reward       the value the reward function returned
VARIABLES pc, data, sym, asym, exc, ss, env, reward_type, reward_fn, reward

vars == <<pc, data, sym, asym, exc, ss, env, reward_type, reward_fn, reward>>

\* Bounds of the explored inputs.
MaxVal == 2
MaxEdits == 1
MaxDim == 2
MaxLen == 2

\* Python's None / an absent optional is the empty tuple, a present value x is <<x>>.
None == <<>>
Some(x) == <<x>>

----------------------------------------------------------------------------
\* Rational arithmetic standing for float arithmetic.

Abs(n) == IF n < 0 THEN -n ELSE n

RECURSIVE Gcd(_, _)
Gcd(x, y) == IF y = 0 THEN x ELSE Gcd(y, x % y)

Rat == Int \X Int

NaR == <<0, 0>>

norm[n \in Int, d \in Int] ==
    LET g == Gcd(Abs(n), Abs(d))
        s == IF d < 0 THEN -1 ELSE 1
    IN  <<(s * n) \div g, (s * d) \div g>>

R(n) == <<n, 1>>

IsNaR(x) == x[2] = 0

IsZero(x) == x[2] # 0 /\ x[1] = 0

\* The operations are functions, so that an operand is evaluated once.
add[x \in Rat, y \in Rat] ==
    IF IsNaR(x) \/ IsNaR(y) THEN NaR
    ELSE norm[x[1] * y[2] + y[1] * x[2], x[2] * y[2]]

neg[x \in Rat] == IF IsNaR(x) THEN NaR ELSE <<-x[1], x[2]>>

mul[x \in Rat, y \in Rat] ==
    IF IsNaR(x) \/ IsNaR(y) THEN NaR
    ELSE norm[x[1] * y[1], x[2] * y[2]]

\* x / y: ZeroDivisionError when y == 0.
div[x \in Rat, y \in Rat] ==
    IF IsNaR(x) \/ IsNaR(y) \/ y[1] = 0 THEN NaR
    ELSE norm[x[1] * y[2], x[2] * y[1]]

Add(x, y) == add[x, y]

Neg(x) == neg[x]

Sub(x, y) == add[x, neg[y]]

Mul(x, y) == mul[x, y]

Div(x, y) == div[x, y]

----------------------------------------------------------------------------
\* AircraftData as aircraft_model.py reads it: v, an optional symmetric block
\* and an optional asymmetric block.  The base values are nonsingular; the
\* explored data are the base data with at most MaxEdits fields replaced by
\* a value of Vals.

Vals == 0 .. MaxVal

BaseSymmetric ==
    [c_bar |-> R(2), mu_c |-> R(1), ky_2 |-> R(2),
     cx |-> [u |-> R(3), a |-> R(-4), o |-> R(-2), de |-> R(5)],
     cz |-> [u |-> R(3), a |-> R(2), a_dot |-> R(-3), o |-> R(4),
             q |-> R(-5), de |-> R(-4)],
     cm |-> [u |-> R(-1), a |-> R(-4), a_dot |-> R(2), q |-> R(-4), de |-> R(3)]]

BaseAsymmetric ==
    [b |-> R(3), mu_b |-> R(2), c_l |-> R(1),
     kx_2 |-> R(4), kz_2 |-> R(1), kxz |-> R(1),
     cy |-> [b |-> R(4), p |-> R(5), r |-> R(-1), dr |-> R(3)],
     cl |-> [b |-> R(4), p |-> R(-1), r |-> R(3), da |-> R(-5), dr |-> R(5)],
     cn |-> [b |-> R(-2), p |-> R(-5), r |-> R(-4), da |-> R(-2), dr |-> R(3)]]

SymScalars == {"c_bar", "mu_c", "ky_2"}
SymGroups == {"cx", "cz", "cm"}
AsymScalars == {"b", "mu_b", "c_l", "kx_2", "kz_2", "kxz"}
AsymGroups == {"cy", "cl", "cn"}

\* An edit <<block, group, field, x>> replaces one field by x; the group is
\* "" for a scalar of the block, the block is "" for v.  An edit of an absent
\* block changes nothing.
EditOps ==
    {<<"", "", "v">>}
    \cup {<<"symmetric", "", f>> : f \in SymScalars}
    \cup UNION {{<<"symmetric", g, f>> : f \in DOMAIN BaseSymmetric[g]} : g \in SymGroups}
    \cup {<<"asymmetric", "", f>> : f \in AsymScalars}
    \cup UNION {{<<"asymmetric", g, f>> : f \in DOMAIN BaseAsymmetric[g]} : g \in AsymGroups}

ApplyEdit(d, e, x) ==
    IF e[1] = "" THEN [d EXCEPT !.v = R(x)]
    ELSE IF d[e[1]] = None THEN d
    ELSE IF e[2] = "" THEN [d EXCEPT ![e[1]][1][e[3]] = R(x)]
    ELSE [d EXCEPT ![e[1]][1][e[2]][e[3]] = R(x)]

RECURSIVE Edited(_, _)
Edited(S, k) ==
    IF k = 0 THEN S
    ELSE S \cup {ApplyEdit(d, e, x) : d \in Edited(S, k - 1), e \in EditOps, x \in Vals}

BaseDatas ==
    {[v |-> R(5), symmetric |-> s, asymmetric |-> a] :
        s \in {None, Some(BaseSymmetric)}, a \in {None, Some(BaseAsymmetric)}}

AircraftDatas == Edited(BaseDatas, MaxEdits)

----------------------------------------------------------------------------
\* The(S) is the element of the singleton S.  {e(x) : x \in {v}} binds x to
\* the value of v, which is then computed once.
The(S) == CHOOSE x \in S : TRUE

\* A function body is the sequence of its statements <<line, value>>; the
\* line of the first statement that raised, 0 when none did.

RECURSIVE FirstRaise(_)
FirstRaise(stmts) ==
    IF stmts = <<>> THEN 0
    ELSE IF IsNaR(Head(stmts)[2]) THEN Head(stmts)[1]
    ELSE FirstRaise(Tail(stmts))

Returned(x) == [raised |-> 0, value |-> Some(x)]
RaisedAt(line) == [raised |-> line, value |-> None]

----------------------------------------------------------------------------
\* StateSpace.__init__

Eye(n) == [i \in 1 .. n |-> [j \in 1 .. n |-> IF i = j THEN R(1) ELSE R(0)]]

Zeros(n, m) == [i \in 1 .. n |-> [j \in 1 .. m |-> R(0)]]

\* a.shape[0], b.shape[1]
Shape0(mat) == Len(mat)
Shape1(mat) == Len(mat[1])

StateSpace_c(a, b) == Eye(Shape0(a))

\* Mutant: the column count of d taken from b.shape[0].
StateSpace_d_rows(a, b) == Zeros(Shape0(a), Shape0(b))

StateSpace_d(a, b) == Zeros(Shape0(a), Shape1(b))

StateSpace_init(a, b, x_names, u_names) ==
    [a |-> a, b |-> b, x_names |-> x_names, u_names |-> u_names,
     c |-> StateSpace_c(a, b), d |-> StateSpace_d(a, b)]

----------------------------------------------------------------------------
\* Symmetric

Symmetric_x_names == <<"u_hat", "alpha", "theta", "q_cv">>

Symmetric_u_names == <<"de">>

Symmetric_build_a_locals(d) ==
    LET v == d.v
        c_bar == d.symmetric[1].c_bar
        mu_c == d.symmetric[1].mu_c
        ky_2 == d.symmetric[1].ky_2
        cx == d.symmetric[1].cx
        cz == d.symmetric[1].cz
        cm == d.symmetric[1].cm
        v_c == Div(v, c_bar)
        mu_c_cz_a == Sub(Mul(R(2), mu_c), cz.a_dot)
        cm_a_mu_c == Div(cm.a_dot, Sub(Mul(R(2), mu_c), cz.a_dot))
        mu_c_ky_2 == Mul(Mul(R(2), mu_c), ky_2)
        two_mu_c == Mul(R(2), mu_c)
    IN  [v_c |-> v_c, mu_c_cz_a |-> mu_c_cz_a, cm_a_mu_c |-> cm_a_mu_c,
         mu_c_ky_2 |-> mu_c_ky_2,
         xu |-> Div(Mul(v_c, cx.u), two_mu_c),
         xa |-> Div(Mul(v_c, cx.a), two_mu_c),
         xt |-> Div(Mul(v_c, cz.o), two_mu_c),
         zu |-> Div(Mul(v_c, cz.u), mu_c_cz_a),
         za |-> Div(Mul(v_c, cz.a), mu_c_cz_a),
         zt |-> Div(Mul(v_c, cx.o), mu_c_cz_a),
         zq |-> Div(Mul(v_c, Add(two_mu_c, cz.q)), mu_c_cz_a),
         mu |-> Div(Mul(v_c, Add(cm.u, Mul(cz.u, cm_a_mu_c))), mu_c_ky_2),
         ma |-> Div(Mul(v_c, Add(cm.a, Mul(cz.a, cm_a_mu_c))), mu_c_cz_a),
         mt |-> Div(Mul(Neg(v_c), Mul(cx.o, cm_a_mu_c)), mu_c_ky_2),
         mq |-> Div(Mul(v_c, Add(cm.q, Div(Mul(cm.a_dot, Add(two_mu_c, cz.q)),
                                            mu_c_cz_a))), mu_c_cz_a)]

Symmetric_build_a_stmts(L) ==
    << <<83, L.v_c>>, <<84, L.mu_c_cz_a>>, <<85, L.cm_a_mu_c>>, <<86, L.mu_c_ky_2>>,
       <<88, L.xu>>, <<89, L.xa>>, <<90, L.xt>>,
       <<92, L.zu>>, <<93, L.za>>, <<94, L.zt>>, <<95, L.zq>>,
       <<97, L.mu>>, <<98, L.ma>>, <<99, L.mt>>, <<100, L.mq>> >>

\* Mutant: the theta row holds zq instead of v_c.
Symmetric_build_a_array_zq(L) ==
    << <<L.xu, L.xa, L.xt, R(0)>>,
       <<L.zu, L.za, L.zt, L.zq>>,
       <<R(0), R(0), R(0), L.zq>>,
       <<L.mu, L.ma, L.mt, L.mq>> >>

Symmetric_build_a_array(L) ==
    << <<L.xu, L.xa, L.xt, R(0)>>,
       <<L.zu, L.za, L.zt, L.zq>>,
       <<R(0), R(0), R(0), L.v_c>>,
       <<L.mu, L.ma, L.mt, L.mq>> >>

\* The statements run in order; the array is built when none raised.
Symmetric_build_a(d) ==
    The({The({IF line # 0 THEN RaisedAt(line) ELSE Returned(Symmetric_build_a_array(L)) :
                 line \in {FirstRaise(Symmetric_build_a_stmts(L))}}) :
         L \in {Symmetric_build_a_locals(d)}})

Symmetric_build_b_locals(d) ==
    LET v == d.v
        c_bar == d.symmetric[1].c_bar
        mu_c == d.symmetric[1].mu_c
        ky_2 == d.symmetric[1].ky_2
        cx == d.symmetric[1].cx
        cz == d.symmetric[1].cz
        cm == d.symmetric[1].cm
        v_c == Div(v, c_bar)
        mu_c_cz_a == Sub(Mul(R(2), mu_c), cz.a_dot)
    IN  [v_c |-> v_c, mu_c_cz_a |-> mu_c_cz_a,
         x_de |-> Div(Mul(v_c, cx.de), Mul(R(2), mu_c)),
         z_de |-> Div(Mul(v_c, cz.de), mu_c_cz_a),
         m_de |-> Div(Mul(v_c, Add(cm.de, Div(Mul(cz.de, cm.a_dot), mu_c_cz_a))),
                      Mul(Mul(R(2), mu_c), ky_2))]

Symmetric_build_b_stmts(L) ==
    << <<126, L.v_c>>, <<127, L.mu_c_cz_a>>,
       <<129, L.x_de>>, <<130, L.z_de>>, <<131, L.m_de>> >>

\* Mutant: b built as one row instead of one column.
Symmetric_build_b_array_row(L) == << <<L.x_de, L.z_de, R(0), L.m_de>> >>

Symmetric_build_b_array(L) == << <<L.x_de>>, <<L.z_de>>, <<R(0)>>, <<L.m_de>> >>

\* The statements run in order; the array is built when none raised.
Symmetric_build_b(d) ==
    The({The({IF line # 0 THEN RaisedAt(line) ELSE Returned(Symmetric_build_b_array(L)) :
                 line \in {FirstRaise(Symmetric_build_b_stmts(L))}}) :
         L \in {Symmetric_build_b_locals(d)}})

Symmetric_init(d) ==
    The({IF a.raised # 0 THEN a
         ELSE The({IF b.raised # 0 THEN b
                   ELSE Returned(StateSpace_init(a.value[1], b.value[1],
                                                 Symmetric_x_names, Symmetric_u_names)) :
                   b \in {Symmetric_build_b(d)}}) :
         a \in {Symmetric_build_a(d)}})

----------------------------------------------------------------------------
\* Asymmetric

Asymmetric_x_names == <<"beta", "phi", "pb_2v", "rb_2v">>

Asymmetric_u_names == <<"da", "dr">>

\* v_b is assigned three times: line 177, and again by the chained
\* assignments lp = v_b = ... (line 186) and lr = v_b = ... (line 187).
Asymmetric_build_a_locals(d) ==
    LET v == d.v
        b == d.asymmetric[1].b
        mu_b == d.asymmetric[1].mu_b
        c_l == d.asymmetric[1].c_l
        kx_2 == d.asymmetric[1].kx_2
        kz_2 == d.asymmetric[1].kz_2
        kxz == d.asymmetric[1].kxz
        cy == d.asymmetric[1].cy
        cl == d.asymmetric[1].cl
        cn == d.asymmetric[1].cn
        v_b_177 == Div(v, b)
        mu_b_k == Mul(Mul(R(4), mu_b), Sub(Mul(kx_2, kz_2), Mul(kxz, kxz)))
        two_mu_b == Mul(R(2), mu_b)
        v_b_186 == Div(Add(Mul(cl.p, kz_2), Mul(cn.p, kxz)), mu_b_k)
        v_b_187 == Div(Add(Mul(cl.r, kz_2), Mul(cn.r, kxz)), mu_b_k)
    IN  [v_b |-> v_b_187, v_b_177 |-> v_b_177, mu_b_k |-> mu_b_k,
         yb |-> Div(Mul(v_b_177, cy.b), two_mu_b),
         yphi |-> Div(Mul(v_b_177, c_l), two_mu_b),
         yp |-> Div(Mul(v_b_177, cy.p), two_mu_b),
         yr |-> Div(Mul(v_b_177, Sub(cy.r, Mul(R(4), mu_b))), two_mu_b),
         lb |-> Div(Mul(v_b_177, Add(Mul(cl.b, kz_2), Mul(cn.b, kxz))), mu_b_k),
         lp |-> v_b_186,
         lr |-> v_b_187,
         nb |-> Div(Mul(v_b_187, Add(Mul(cl.b, kxz), Mul(cn.b, kx_2))), mu_b_k),
         n_p |-> Div(Mul(v_b_187, Add(Mul(cl.p, kxz), Mul(cn.p, kx_2))), mu_b_k),
         nr |-> Div(Mul(v_b_187, Add(Mul(cl.r, kxz), Mul(cn.r, kx_2))), mu_b_k)]

Asymmetric_build_a_stmts(L) ==
    << <<177, L.v_b_177>>, <<178, L.mu_b_k>>,
       <<180, L.yb>>, <<181, L.yphi>>, <<182, L.yp>>, <<183, L.yr>>,
       <<185, L.lb>>, <<186, L.lp>>, <<187, L.lr>>,
       <<189, L.nb>>, <<190, L.n_p>>, <<191, L.nr>> >>

Asymmetric_build_a_array(L) ==
    << <<L.yb, L.yphi, L.yp, L.yr>>,
       <<R(0), R(0), Mul(R(2), L.v_b), R(0)>>,
       <<L.lb, R(0), L.lp, L.lr>>,
       <<L.nb, R(0), L.n_p, L.nr>> >>

\* The statements run in order; the array is built when none raised.
Asymmetric_build_a(d) ==
    The({The({IF line # 0 THEN RaisedAt(line) ELSE Returned(Asymmetric_build_a_array(L)) :
                 line \in {FirstRaise(Asymmetric_build_a_stmts(L))}}) :
         L \in {Asymmetric_build_a_locals(d)}})

\* Mutant: the scaling factor of build_a, v / b.
Asymmetric_build_b_v_b_span(d) == Div(d.v, d.asymmetric[1].b)

\* v_b = v / mu_b
Asymmetric_build_b_v_b(d) == Div(d.v, d.asymmetric[1].mu_b)

Asymmetric_build_b_locals(d) ==
    LET mu_b == d.asymmetric[1].mu_b
        kx_2 == d.asymmetric[1].kx_2
        kz_2 == d.asymmetric[1].kz_2
        kxz == d.asymmetric[1].kxz
        cy == d.asymmetric[1].cy
        cl == d.asymmetric[1].cl
        cn == d.asymmetric[1].cn
        v_b == Asymmetric_build_b_v_b(d)
        mu_b_k == Mul(Mul(R(4), mu_b), Sub(Mul(kx_2, kz_2), Mul(kxz, kxz)))
    IN  [v_b |-> v_b, mu_b_k |-> mu_b_k,
         y_dr |-> Div(Mul(v_b, cy.dr), Mul(R(2), mu_b)),
         l_da |-> Div(Mul(v_b, Add(Mul(cl.da, kz_2), Mul(cn.da, kxz))), mu_b_k),
         l_dr |-> Div(Mul(v_b, Add(Mul(cl.dr, kz_2), Mul(cn.dr, kxz))), mu_b_k),
         n_da |-> Div(Mul(v_b, Add(Mul(cl.da, kxz), Mul(cn.da, kx_2))), mu_b_k),
         n_dr |-> Div(Mul(v_b, Add(Mul(cl.dr, kxz), Mul(cn.dr, kx_2))), mu_b_k)]

Asymmetric_build_b_stmts(L) ==
    << <<218, L.v_b>>, <<219, L.mu_b_k>>, <<221, L.y_dr>>,
       <<223, L.l_da>>, <<224, L.l_dr>>, <<226, L.n_da>>, <<227, L.n_dr>> >>

Asymmetric_build_b_array(L) ==
    << <<R(0), L.y_dr>>,
       <<R(0), R(0)>>,
       <<L.l_da, L.l_dr>>,
       <<L.n_da, L.n_dr>> >>

\* The statements run in order; the array is built when none raised.
Asymmetric_build_b(d) ==
    The({The({IF line # 0 THEN RaisedAt(line) ELSE Returned(Asymmetric_build_b_array(L)) :
                 line \in {FirstRaise(Asymmetric_build_b_stmts(L))}}) :
         L \in {Asymmetric_build_b_locals(d)}})

Asymmetric_init(d) ==
    The({IF a.raised # 0 THEN a
         ELSE The({IF b.raised # 0 THEN b
                   ELSE Returned(StateSpace_init(a.value[1], b.value[1],
                                                 Asymmetric_x_names, Asymmetric_u_names)) :
                   b \in {Asymmetric_build_b(d)}}) :
         a \in {Asymmetric_build_a(d)}})

----------------------------------------------------------------------------
\* Aircraft.__init__

\* if self.data.symmetric:
Aircraft_has_symmetric(d) == d.symmetric # None

\* Mutant: elif instead of if.
Aircraft_has_asymmetric_elif(d) == d.asymmetric # None /\ d.symmetric = None

\* if self.data.asymmetric:
Aircraft_has_asymmetric(d) == d.asymmetric # None

\* The fields of self when __init__ returns or raises, and the line that
\* raised (0: it returned).
Aircraft__init__(d) ==
    The({IF s.raised # 0 THEN [raised |-> s.raised, sym |-> None, asym |-> None]
         ELSE The({IF a.raised # 0
                   THEN [raised |-> a.raised, sym |-> s.value, asym |-> None]
                   ELSE [raised |-> 0, sym |-> s.value, asym |-> a.value] :
                   a \in {IF Aircraft_has_asymmetric(d) THEN Asymmetric_init(d)
                          ELSE [raised |-> 0, value |-> None]}}) :
         s \in {IF Aircraft_has_symmetric(d) THEN Symmetric_init(d)
                ELSE [raised |-> 0, value |-> None]}})

----------------------------------------------------------------------------
\* rewards.py

RewardTypes == {"sq_error", "sq_error_da", "abs_error", "sq_error_du", ""}

\* Mutant: an unknown tag falls back to sq_error instead of raising.
get_reward_fallback(tag) ==
    IF tag = "sq_error_da" THEN Some("sq_error_da") ELSE Some("sq_error")

\* The function get_reward returns, None when it raises ValueError (line 13).
get_reward(tag) ==
    IF tag = "sq_error" THEN Some("sq_error")
    ELSE IF tag = "sq_error_da" THEN Some("sq_error_da")
    ELSE None

Last(seq) == seq[Len(seq)]

\* seq[-2:]
LastTwo(seq) == IF Len(seq) <= 2 THEN seq ELSE SubSeq(seq, Len(seq) - 1, Len(seq))

RECURSIVE SumSeq(_)
SumSeq(seq) == IF seq = <<>> THEN R(0) ELSE Add(seq[1], SumSeq(Tail(seq)))

\* np.sum(np.diff(rows, axis=0) ** 2)
SumSqDiff(rows) ==
    SumSeq([i \in 1 .. (Len(rows) - 1) |->
              SumSeq([j \in 1 .. Len(rows[1]) |->
                        LET df == Sub(rows[i + 1][j], rows[i][j]) IN Mul(df, df)])])

Rewards_sq_error(self) == Mul(Neg(self.reward_scale), Last(self.sq_error))

Rewards_sq_error_da(self) ==
    Neg(Add(Last(self.sq_error), SumSqDiff(LastTwo(self.actions))))

CallReward(fn, self) ==
    IF fn = "sq_error" THEN Rewards_sq_error(self) ELSE Rewards_sq_error_da(self)

\* The environment fields the reward functions read.
ActionDims == {Len(Symmetric_u_names), Len(Asymmetric_u_names)}

ActionVectors(n) == [1 .. n -> {R(x) : x \in 0 .. 1}]

Histories(S) == UNION {[1 .. n -> S] : n \in 1 .. MaxLen}

Windows ==
    {[reward_scale |-> R(s), sq_error |-> e, actions |-> a] :
        s \in 1 .. MaxVal,
        e \in Histories({R(x) : x \in Vals}),
        a \in UNION {Histories(ActionVectors(n)) : n \in ActionDims}}

----------------------------------------------------------------------------
\* The state machine.

Init ==
    /\ pc = "idle"
    /\ data = None
    /\ sym = None
    /\ asym = None
    /\ exc = None
    /\ ss = None
    /\ env = None
    /\ reward_type = None
    /\ reward_fn = None
    /\ reward = None

\* Aircraft(filename), load_aircraft(filename) returning d.
Aircraft_construct ==
    /\ pc = "idle"
    /\ \E d \in AircraftDatas :
         \E r \in {Aircraft__init__(d)} :
           /\ data' = Some(d)
           /\ sym' = r.sym
           /\ asym' = r.asym
           /\ exc' = IF r.raised # 0
                     THEN Some([type |-> "ZeroDivisionError", line |-> r.raised])
                     ELSE None
           /\ pc' = IF r.raised # 0 THEN "aircraft_raised" ELSE "aircraft_done"
    /\ UNCHANGED <<ss, env, reward_type, reward_fn, reward>>

\* StateSpace(a, b, x_names, u_names) called directly, a of shape n x n and
\* b of shape n x m.
StateSpace_construct ==
    /\ pc = "idle"
    /\ \E n \in 1 .. MaxDim, m \in 1 .. MaxDim, k \in Vals :
         LET a == [i \in 1 .. n |-> [j \in 1 .. n |-> R(k + i - j)]]
             b == [i \in 1 .. n |-> [j \in 1 .. m |-> R(k * i + j)]]
             x_names == [i \in 1 .. n |-> "x" \o ToString(i)]
             u_names == [j \in 1 .. m |-> "u" \o ToString(j)]
         IN  ss' = Some(StateSpace_init(a, b, x_names, u_names))
    /\ pc' = "statespace_done"
    /\ UNCHANGED <<data, sym, asym, exc, env, reward_type, reward_fn, reward>>

\* get_reward(tag)
Reward_select ==
    /\ pc = "idle"
    /\ \E tag \in RewardTypes :
         /\ reward_type' = Some(tag)
         /\ reward_fn' = get_reward(tag)
         /\ exc' = IF get_reward(tag) = None
                   THEN Some([type |-> "ValueError", line |-> 13])
                   ELSE None
         /\ pc' = IF get_reward(tag) = None THEN "reward_raised" ELSE "reward_selected"
    /\ UNCHANGED <<data, sym, asym, ss, env, reward>>

\* The selected function called with the environment w as self.
Reward_call ==
    /\ pc = "reward_selected"
    /\ \E w \in Windows :
         /\ env' = Some(w)
         /\ reward' = Some(CallReward(reward_fn[1], w))
    /\ pc' = "reward_scored"
    /\ UNCHANGED <<data, sym, asym, exc, ss, reward_type, reward_fn>>

Next ==
    \/ Aircraft_construct
    \/ StateSpace_construct
    \/ Reward_select
    \/ Reward_call

Spec == Init /\ [][Next]_vars

----------------------------------------------------------------------------
\* Properties.

Recognized == {"sq_error", "sq_error_da"}

Constructed == pc \in {"aircraft_done", "aircraft_raised"}

SymSingular(d) ==
    /\ d.symmetric # None
    /\ \/ IsZero(Sub(Mul(R(2), d.symmetric[1].mu_c), d.symmetric[1].cz.a_dot))
       \/ IsZero(Mul(Mul(R(2), d.symmetric[1].mu_c), d.symmetric[1].ky_2))

IsIdentity(mat, n) ==
    /\ Len(mat) = n
    /\ \A i \in 1 .. n :
         /\ Len(mat[i]) = n
         /\ \A j \in 1 .. n : mat[i][j] = IF i = j THEN <<1, 1>> ELSE <<0, 1>>

IsZeroMatrix(mat, n, m) ==
    /\ Len(mat) = n
    /\ \A i \in 1 .. n :
         /\ Len(mat[i]) = m
         /\ \A j \in 1 .. m : mat[i][j] = <<0, 1>>

HasShape(mat, n, m) == Len(mat) = n /\ \A i \in 1 .. n : Len(mat[i]) = m

\* The asymmetric A matrix of the table, every entry scaled by v_b = v / b.
TableAsymmetricA(d) ==
    LET y == d.asymmetric[1]
        v_b == Div(d.v, y.b)
        mu_b_k == Mul(Mul(R(4), y.mu_b), Sub(Mul(y.kx_2, y.kz_2), Mul(y.kxz, y.kxz)))
        two_mu_b == Mul(R(2), y.mu_b)
        l(f) == Div(Mul(v_b, Add(Mul(y.cl[f], y.kz_2), Mul(y.cn[f], y.kxz))), mu_b_k)
        n(f) == Div(Mul(v_b, Add(Mul(y.cl[f], y.kxz), Mul(y.cn[f], y.kx_2))), mu_b_k)
    IN  << <<Div(Mul(v_b, y.cy.b), two_mu_b), Div(Mul(v_b, y.c_l), two_mu_b),
             Div(Mul(v_b, y.cy.p), two_mu_b),
             Div(Mul(v_b, Sub(y.cy.r, Mul(R(4), y.mu_b))), two_mu_b)>>,
           <<R(0), R(0), Mul(R(2), v_b), R(0)>>,
           <<l("b"), R(0), l("p"), l("r")>>,
           <<n("b"), R(0), n("p"), n("r")>> >>

\* The asymmetric B matrix with the scaling factor s = v / mu_b.
TableAsymmetricB(d) ==
    LET y == d.asymmetric[1]
        s == Div(d.v, y.mu_b)
        mu_b_k == Mul(Mul(R(4), y.mu_b), Sub(Mul(y.kx_2, y.kz_2), Mul(y.kxz, y.kxz)))
        l(f) == Div(Mul(s, Add(Mul(y.cl[f], y.kz_2), Mul(y.cn[f], y.kxz))), mu_b_k)
        n(f) == Div(Mul(s, Add(Mul(y.cl[f], y.kxz), Mul(y.cn[f], y.kx_2))), mu_b_k)
    IN  << <<R(0), Div(Mul(s, y.cy.dr), Mul(R(2), y.mu_b))>>,
           <<R(0), R(0)>>,
           <<l("da"), l("dr")>>,
           <<n("da"), n("dr")>> >>

\* d with every symmetric aerodynamic derivative replaced by x.
WithSymDerivatives(d, x) ==
    [d EXCEPT !.symmetric[1].cx = [f \in DOMAIN @ |-> R(x)],
              !.symmetric[1].cz = [f \in DOMAIN @ |-> R(x)],
              !.symmetric[1].cm = [f \in DOMAIN @ |-> R(x)]]

\* C1: constructing an Aircraft from data with neither block fails; it never
\* completes with both submodels absent.
C1_NeitherBlockFails ==
    (Constructed /\ data[1].symmetric = None /\ data[1].asymmetric = None)
        => pc = "aircraft_raised"

\* C2: after a successful construction each submodel is present iff its data
\* block is present, an absent submodel is None, and each submodel is the one
\* built from the data without the other block.
C2_SubmodelsFollowBlocks ==
    pc = "aircraft_done" =>
        /\ (sym # None) <=> (data[1].symmetric # None)
        /\ (asym # None) <=> (data[1].asymmetric # None)
        /\ Len(sym) <= 1 /\ Len(asym) <= 1
        /\ sym # None =>
             sym = Symmetric_init([data[1] EXCEPT !.asymmetric = None]).value
        /\ asym # None =>
             asym = Asymmetric_init([data[1] EXCEPT !.symmetric = None]).value

C2_Witness ==
    /\ pc = "aircraft_done"
    /\ data[1].symmetric # None /\ sym # None
    /\ data[1].asymmetric = None /\ asym = None

\* C3: a symmetric build with 2*mu_c - cz.a_dot == 0 or 2*mu_c*ky_2 == 0 fails,
\* and the failure is raised before a division by zero is attempted.
C3_SingularFailsBeforeDivision ==
    (Constructed /\ SymSingular(data[1])) =>
        /\ pc = "aircraft_raised"
        /\ sym = None
        /\ exc[1].type # "ZeroDivisionError"

\* C4: the reward sq_error is -s * E, and with at least two recorded actions
\* the reward sq_error_da is that value minus the sum of the squared
\* component differences of the last two action vectors.
C4_DaIsSqErrorMinusPenalty ==
    pc = "reward_scored" =>
        LET w == env[1]
            base == Neg(Mul(w.reward_scale, w.sq_error[Len(w.sq_error)]))
            n == Len(w.actions)
            penalty == SumSeq([j \in 1 .. Len(w.actions[n]) |->
                                 Mul(Sub(w.actions[n][j], w.actions[n - 1][j]),
                                     Sub(w.actions[n][j], w.actions[n - 1][j]))])
        IN  /\ reward_fn = Some("sq_error") => reward = Some(base)
            /\ (reward_fn = Some("sq_error_da") /\ n >= 2)
                   => reward = Some(Sub(base, penalty))

\* C5: get_reward fails and returns no function for every tag other than
\* sq_error and sq_error_da, and returns the function of the same kind for
\* these two.
C5_ExactlyTwoKinds ==
    reward_type # None =>
        /\ reward_type[1] \notin Recognized =>
             pc = "reward_raised" /\ exc # None /\ reward_fn = None
        /\ reward_type[1] \in Recognized =>
             pc # "reward_raised" /\ exc = None /\ reward_fn = reward_type

C5_Witness ==
    pc = "reward_raised" /\ reward_type = Some("sq_error_du") /\ reward_fn = None

\* C6 as stated: a symmetric model has A 4x4, B 4x1, state names
\* [u_hat, alpha, theta, q] and input names [de].
C6_SymmetricNamesAsStated ==
    sym # None =>
        /\ HasShape(sym[1].a, 4, 4)
        /\ HasShape(sym[1].b, 4, 1)
        /\ sym[1].x_names = <<"u_hat", "alpha", "theta", "q">>
        /\ sym[1].u_names = <<"de">>

\* C6 amended: a symmetric model has A 4x4, B 4x1, state names
\* [u_hat, alpha, theta, q_cv] and input names [de].
C6_SymmetricShapeAndNames ==
    sym # None =>
        /\ HasShape(sym[1].a, 4, 4)
        /\ HasShape(sym[1].b, 4, 1)
        /\ sym[1].x_names = <<"u_hat", "alpha", "theta", "q_cv">>
        /\ sym[1].u_names = <<"de">>

C6_Witness == pc = "aircraft_done" /\ sym # None /\ Len(sym[1].b) = 4

\* C7: the theta row of the symmetric A matrix is [0, 0, 0, v / c_bar], and
\* replacing the aerodynamic derivatives leaves it unchanged.
C7_ThetaRow ==
    sym # None =>
        LET row == <<R(0), R(0), R(0), Div(data[1].v, data[1].symmetric[1].c_bar)>>
        IN  /\ sym[1].a[3] = row
            /\ ~IsNaR(sym[1].a[3][4])
            /\ \A x \in Vals \cup {-1} :
                 \A r \in {Symmetric_build_a(WithSymDerivatives(data[1], x))} :
                    r.raised = 0 => r.value[1][3] = sym[1].a[3]

C7_Witness ==
    /\ sym # None
    /\ data[1].symmetric[1].c_bar # BaseSymmetric.c_bar
    /\ sym[1].a[3][4] # R(0)

\* C8: every constructed state-space model has C the n x n identity and D the
\* n x m zero matrix, n the number of state names and rows of A, m the number
\* of input names and columns of B.
C8_IdentityOutputZeroFeedthrough ==
    \A mdl \in {sym, asym, ss} \ {None} :
        LET n == Len(mdl[1].x_names)
            m == Len(mdl[1].u_names)
        IN  /\ HasShape(mdl[1].a, n, n)
            /\ HasShape(mdl[1].b, n, m)
            /\ IsIdentity(mdl[1].c, n)
            /\ IsZeroMatrix(mdl[1].d, n, m)

C8_Witness ==
    /\ ss # None
    /\ Len(ss[1].x_names) = 2 /\ Len(ss[1].u_names) = 1
    /\ ss[1].d = << <<R(0)>>, <<R(0)>> >>

\* C9: every entry of the asymmetric A matrix is the table formula evaluated
\* with the single scaling factor v_b = v / b.
C9_AsymmetricAFollowsTable ==
    asym # None => asym[1].a = TableAsymmetricA(data[1])

\* C10: the asymmetric B matrix is the 4x2 table evaluated with the scaling
\* factor v / mu_b, it does not depend on the span b, and the beta row of A is
\* scaled by v / b.
C10_AsymmetricBScaledByMuB ==
    asym # None =>
        /\ HasShape(asym[1].b, 4, 2)
        /\ asym[1].b = TableAsymmetricB(data[1])
        /\ \A x \in 1 .. (MaxVal + 2) :
             Asymmetric_build_b([data[1] EXCEPT !.asymmetric[1].b = R(x)]).value = <<asym[1].b>>
        /\ asym[1].a[1][1] =
             Div(Mul(Div(data[1].v, data[1].asymmetric[1].b), data[1].asymmetric[1].cy.b),
                 Mul(R(2), data[1].asymmetric[1].mu_b))

C10_Witness ==
    /\ asym # None
    /\ data[1].asymmetric[1].b # data[1].asymmetric[1].mu_b
    /\ ~IsZero(asym[1].b[1][2])
    /\ ~IsZero(asym[1].b[3][1])

====
